---- MODULE Spec2Model ----
(***************************************************************************)
(* Model of the per-table replication engine of pg2ch,                     *)
(* pkg/tableengines/generic.go (type genericTable).                        *)
(*                                                                         *)
(* The engine's fields, the loader's byte accumulator, the three sink      *)
(* tables and the checkpoint store are the state.  Every handler of the    *)
(* engine is an operator on a record of that state, translated from its    *)
(* code; an action applies a handler to inputs drawn from small sets.      *)
(* The behaviour of the sink and of the checkpoint store (does a call      *)
(* fail, and on how many consecutive attempts) is an input of the call.    *)
(***************************************************************************)
EXTENDS Integers, Sequences, FiniteSets, TLC

VARIABLES
    cfgBufferTable,   \* cfg.ChBufferTable is configured (not IsEmpty)
    inSync,           \* genericTable.inSync
    bufferCmdId,      \* genericTable.bufferCmdId
    bufferRowId,      \* genericTable.bufferRowId
    bufferFlushCnt,   \* genericTable.bufferFlushCnt
    auxTblRowID,      \* genericTable.auxTblRowID
    syncSnapshotLSN,  \* genericTable.syncSnapshotLSN
    syncedRows,       \* genericTable.syncedRows
    buffer,           \* the byte accumulator inside chLoader, as a sequence of rows
    mainTable,        \* rows of cfg.ChMainTable in the sink
    bufferTable,      \* rows of cfg.ChBufferTable in the sink
    syncAuxTable,     \* rows of cfg.ChSyncAuxTable in the sink
    checkpoint,       \* LSN stored by persStorage under the table's key, 0 = none
    ctxDone,          \* t.ctx is cancelled
    mutex,            \* holder of the engine mutex: "free" or "tx"
    syncPc,           \* position of the task running genSync
    syncArg,          \* snapshotLSN argument of the running genSync
    bulkUpload,       \* the background task of genSync that runs BulkUpload
    history,          \* rows accepted by processChTuples, in arrival order, that
                      \* no TRUNCATE and no snapshot has superseded
    calls,            \* number n of calls made so far, position lsn of the
                      \* replication stream, number of failed sink operations
    last              \* record of the step that led to the state

vars == <<cfgBufferTable, inSync, bufferCmdId, bufferRowId, bufferFlushCnt,
          auxTblRowID, syncSnapshotLSN, syncedRows, buffer, mainTable,
          bufferTable, syncAuxTable, checkpoint, ctxDone, mutex, syncPc,
          syncArg, bulkUpload, history, calls, last>>

----------------------------------------------------------------------------
\* Program constants and configuration

maxAttempts == 100

\* cfg.MaxBufferLength: DML commands per delta buffer
MaxBufferLength == 2

\* cfg.FlushThreshold: buffer flushes after which promotion is due
FlushThreshold == 1

\* cfg.ChSyncAuxTable is configured
ChSyncAuxTableIsEmpty == FALSE

\* cfg.InitSyncSkipTruncate
InitSyncSkipTruncate == FALSE

\* t.flushQueries: the promotion statements, in order.  "move" is the
\* INSERT INTO main SELECT .. FROM buffer ORDER BY row id, "optimize" a
\* housekeeping statement that changes no row.
flushQueries == <<"move", "optimize">>

----------------------------------------------------------------------------
\* Bounds of the model

MaxLSN == 3
MaxTuples == 2
MaxSnapshotRows == 1

\* Number of calls of processChTuples, Truncate and FlushToMainTable
MaxCalls == 3
MaxCallsFaults == 4
MaxCallsSync == 2

\* Number of sink and store operations that fail during a run
MaxFaults == 1
MaxAfterFault == 1

\* The retry loops are evaluated in blocks of BlockLen iterations
BlockLen == 10
Blocks == (maxAttempts \div BlockLen) + 1

LSNs == 1..MaxLSN

\* The LSN of the exported snapshot: events below, at and above it exist
SnapshotLSNs == {MaxLSN - 1}

\* Number of leading attempts on which the sink fails a retried call
FailChoices == {0, 3, maxAttempts}

\* 0: the context is not cancelled during the call; k > 0: it is cancelled
\* during the wait that follows the k-th failed attempt
CancelChoices == {0, 2}

\* The inputs <<fails, cancelAt>> of a retried call that differ in effect:
\* a cancellation needs a failed attempt to wait after
RetryInputs ==
    {<<f, c>> : f \in FailChoices, c \in {0}} \cup {<<maxAttempts, c>> : c \in CancelChoices}

----------------------------------------------------------------------------
\* Rows.  id is the arrival number of the row (negative for snapshot rows),
\* lsn the LSN of its event; aux tells that the row carries the trailing
\* (auxTblRowID, lsn) fields, auxId is the value of the first of them.

Row(id, lsn, aux, auxId) == [id |-> id, lsn |-> lsn, aux |-> aux, auxId |-> auxId]

\* The engine record: the fields of genericTable together with the sink
\* tables and the checkpoint store it acts on
Self ==
    [cfgBufferTable |-> cfgBufferTable, inSync |-> inSync,
     bufferCmdId |-> bufferCmdId, bufferRowId |-> bufferRowId,
     bufferFlushCnt |-> bufferFlushCnt, auxTblRowID |-> auxTblRowID,
     syncSnapshotLSN |-> syncSnapshotLSN, syncedRows |-> syncedRows,
     buffer |-> buffer, mainTable |-> mainTable, bufferTable |-> bufferTable,
     syncAuxTable |-> syncAuxTable, checkpoint |-> checkpoint,
     ctxDone |-> ctxDone]

Install(t) ==
    /\ cfgBufferTable' = t.cfgBufferTable
    /\ inSync' = t.inSync
    /\ bufferCmdId' = t.bufferCmdId
    /\ bufferRowId' = t.bufferRowId
    /\ bufferFlushCnt' = t.bufferFlushCnt
    /\ auxTblRowID' = t.auxTblRowID
    /\ syncSnapshotLSN' = t.syncSnapshotLSN
    /\ syncedRows' = t.syncedRows
    /\ buffer' = t.buffer
    /\ mainTable' = t.mainTable
    /\ bufferTable' = t.bufferTable
    /\ syncAuxTable' = t.syncAuxTable
    /\ checkpoint' = t.checkpoint
    /\ ctxDone' = t.ctxDone

----------------------------------------------------------------------------
\* The sink loader

\* chLoader.BufferWrite appends to the accumulator
BufferWrite(t, row) == [t EXCEPT !.buffer = Append(@, row)]

\* The columns of a flush fit the rows: a flush with syncAuxTableColumns
\* needs the two trailing fields on every row, a flush with chUsedColumns
\* needs them on none
SinkAccepts(target, rows) ==
    \A i \in 1..Len(rows) : rows[i].aux = (target = "aux")

\* chLoader.BufferFlush(target, columns): ships the accumulator to the
\* target table and clears it; a failed flush changes nothing
BufferFlush(t, target, ok) ==
    IF ok /\ SinkAccepts(target, t.buffer)
    THEN [t |-> [t EXCEPT !.buffer = <<>>,
                          !.mainTable = IF target = "main" THEN @ \o t.buffer ELSE @,
                          !.bufferTable = IF target = "buffer" THEN @ \o t.buffer ELSE @,
                          !.syncAuxTable = IF target = "aux" THEN @ \o t.buffer ELSE @],
          err |-> "nil"]
    ELSE [t |-> t, err |-> "sink"]

\* truncateTable(tableName)
truncateTable(t, table, ok) ==
    IF ok
    THEN [t |-> [t EXCEPT !.mainTable = IF table = "main" THEN <<>> ELSE @,
                          !.bufferTable = IF table = "buffer" THEN <<>> ELSE @,
                          !.syncAuxTable = IF table = "aux" THEN <<>> ELSE @],
          err |-> "nil"]
    ELSE [t |-> t, err |-> "sink"]

\* A writeLine that puts the row in front of the staged rows
writeLine_InFront(t, row) == [t EXCEPT !.buffer = <<row>> \o @]

\* writeLine(val)
writeLine(t, row) == BufferWrite(t, row)

----------------------------------------------------------------------------
\* flush from memory to the buffer/main table

\* Lines 371-379: the table the accumulator is shipped to
FlushTarget(t) == IF t.inSync THEN "aux" ELSE "main"

\* Lines 372-384, r being what BufferFlush returned
attemptFlushBufferEnd(t, target, r) ==
    IF r.err # "nil"
    THEN [t |-> t, err |-> "could not flush buffer", target |-> target]
    ELSE [t |-> [r.t EXCEPT !.bufferCmdId = 0, !.bufferFlushCnt = @ + 1],
          err |-> "nil", target |-> target]

attemptFlushBuffer(t, ok) ==
    IF t.bufferCmdId = 0
    THEN [t |-> t, err |-> "nil", target |-> "none"]
    ELSE attemptFlushBufferEnd(t, FlushTarget(t),
                               BufferFlush(t, FlushTarget(t), ok))

\* A select that never takes the ctx.Done() case
Aborts_Never(t, failed, cancelAt) == FALSE

\* The select after a failed attempt: the context is done when the wait
\* starts, or is cancelled during the wait after failed attempt cancelAt
Aborts(t, failed, cancelAt) == t.ctxDone \/ (cancelAt > 0 /\ failed >= cancelAt)

\* The state of a retry loop: t the engine, attempt the loop variable,
\* err the error of the last attempt, made the number of attempts made,
\* done: the loop was left by break or by return; fails, failAt and
\* cancelAt are the inputs of the call
RetryLoop(t, fails, failAt, cancelAt) ==
    [t |-> t, attempt |-> 0, err |-> "nil", made |-> 0, target |-> "none",
     done |-> FALSE, fails |-> fails, failAt |-> failAt, cancelAt |-> cancelAt]

\* Lines 326-337, r being what attemptFlushBuffer returned
flushBufferAttemptEnd(l, r) ==
    IF r.err = "nil"
    THEN [l EXCEPT !.t = r.t, !.err = "nil", !.made = @ + 1,
                   !.target = r.target, !.done = TRUE]
    ELSE IF Aborts(l.t, l.attempt + 1, l.cancelAt)
    THEN [l EXCEPT !.t = [l.t EXCEPT !.ctxDone = TRUE],
                   !.err = "abort retrying", !.made = @ + 1,
                   !.target = r.target, !.done = TRUE]
    ELSE [l EXCEPT !.err = r.err, !.made = @ + 1, !.target = r.target,
                   !.attempt = @ + 1]

\* The body of the for loop of flushBuffer, lines 324-337; the first
\* l.fails flushes of the sink fail
flushBufferAttempt(l) ==
    flushBufferAttemptEnd(l, attemptFlushBuffer(l.t, l.attempt >= l.fails))

\* At most k iterations of for attempt := 0; attempt < maxAttempts; attempt++
RECURSIVE flushBufferLoop(_, _)
flushBufferLoop(l, k) ==
    IF k = 0 \/ l.done \/ ~(l.attempt < maxAttempts)
    THEN l
    ELSE flushBufferLoop(flushBufferAttempt(l), k - 1)

\* The loop, run in b blocks of BlockLen iterations
RECURSIVE flushBufferBlocks(_, _)
flushBufferBlocks(l, b) ==
    IF b = 0 \/ l.done
    THEN l
    ELSE flushBufferBlocks(flushBufferLoop(l, BlockLen), b - 1)

\* What flushBuffer returns when its loop ended in l
flushBufferReturn(l) ==
    [t |-> l.t, err |-> l.err, attempts |-> l.made, target |-> l.target]

flushBuffer(t, fails, cancelAt) ==
    flushBufferReturn(flushBufferBlocks(RetryLoop(t, fails, 0, cancelAt), Blocks))

\* What a flush did, for the record of the call: t the engine before the
\* flush, f what flushBuffer returned
FlushLog(t, f) ==
    [attempts |-> f.attempts, target |-> f.target, flushErr |-> f.err,
     shipped |-> IF f.target = "none" THEN <<>> ELSE t.buffer]

----------------------------------------------------------------------------
\* processChTuples

\* The test with <= in place of <
IsStale_Inclusive(t, lsn) == lsn <= t.syncSnapshotLSN

\* Line 291, the test of a row received outside sync
IsStale(t, lsn) == lsn < t.syncSnapshotLSN

\* The flag with > in place of >=
MergeIsNeeded_Strict(t) == t.bufferFlushCnt > FlushThreshold

\* Line 315, the returned flag when a buffer table is configured
MergeIsNeeded(t) == t.bufferFlushCnt >= FlushThreshold

\* Lines 295-299
writeRow(t, row) == [writeLine(t, row) EXCEPT !.bufferRowId = @ + 1]

\* The rows written by the loop: row, then those of the rest of the loop
RowThen(row, rest) == [rest EXCEPT !.rows = <<row>> \o @]

\* The loop over the rows of the set, with n rows left; id is the arrival
\* number of the next row.  dropped: the loop returned (false, nil) at the
\* stale check.
RECURSIVE writeRows(_, _, _, _)
writeRows(t, lsn, n, id) ==
    IF n = 0
    THEN [t |-> t, dropped |-> FALSE, rows |-> <<>>]
    ELSE IF t.inSync
    THEN RowThen(Row(id, lsn, TRUE, t.auxTblRowID),
                 writeRows(writeRow([t EXCEPT !.auxTblRowID = @ + 1],
                                    Row(id, lsn, TRUE, t.auxTblRowID)),
                           lsn, n - 1, id + 1))
    ELSE IF IsStale(t, lsn)
    THEN [t |-> t, dropped |-> TRUE, rows |-> <<>>]
    ELSE RowThen(Row(id, lsn, FALSE, 0),
                 writeRows(writeRow(t, Row(id, lsn, FALSE, 0)),
                           lsn, n - 1, id + 1))

\* Lines 282-300.  isNil: the set is nil; otherwise it holds n rows
processSet(t, lsn, isNil, n, id) ==
    IF isNil THEN [t |-> t, dropped |-> FALSE, rows |-> <<>>]
             ELSE writeRows(t, lsn, n, id)

\* Line 302
countCommand(t, isNil) == IF isNil THEN t ELSE [t EXCEPT !.bufferCmdId = @ + 1]

\* Lines 305-309
flushIfFull(t, fails, cancelAt) ==
    IF t.bufferCmdId = MaxBufferLength
    THEN flushBuffer(t, fails, cancelAt)
    ELSE [t |-> t, err |-> "nil", attempts |-> 0, target |-> "none"]

\* Lines 306-315: w what the loop over the rows did, t1 the engine when
\* the command is counted, f what the flush returned
processChTuplesReturn(w, t1, f) ==
    [t |-> f.t,
     mergeIsNeeded |-> IF f.err # "nil" \/ ~f.t.cfgBufferTable
                       THEN FALSE
                       ELSE MergeIsNeeded(f.t),
     err |-> f.err,
     dropped |-> FALSE,
     rows |-> w.rows,
     flushCalled |-> t1.bufferCmdId = MaxBufferLength]
    @@ FlushLog(t1, f)

processChTuplesFlush(w, t1, fails, cancelAt) ==
    processChTuplesReturn(w, t1, flushIfFull(t1, fails, cancelAt))

\* Lines 301-315, w being what the loop over the rows did
processChTuplesEnd(w, isNil, fails, cancelAt) ==
    IF w.dropped
    THEN [t |-> w.t, mergeIsNeeded |-> FALSE, err |-> "nil", dropped |-> TRUE,
          rows |-> w.rows, flushCalled |-> FALSE, attempts |-> 0,
          target |-> "none", flushErr |-> "nil", shipped |-> <<>>]
    ELSE processChTuplesFlush(w, countCommand(w.t, isNil), fails, cancelAt)

processChTuples(t, lsn, isNil, n, id, fails, cancelAt) ==
    processChTuplesEnd(processSet(t, lsn, isNil, n, id), isNil, fails, cancelAt)

----------------------------------------------------------------------------
\* Promotion

\* chLoader.Exec of one promotion statement
ExecFlushQuery(t, query) ==
    IF query = "move" THEN [t EXCEPT !.mainTable = @ \o t.bufferTable] ELSE t

\* The loop over flushQueries from statement i on; failAt is the number of
\* the statement whose Exec fails in this attempt, 0 if none fails
RECURSIVE tryFlushQueries(_, _, _)
tryFlushQueries(t, i, failAt) ==
    IF i > Len(flushQueries)
    THEN [t |-> t, err |-> "nil"]
    ELSE IF i = failAt
    THEN [t |-> t, err |-> "sink"]
    ELSE tryFlushQueries(ExecFlushQuery(t, flushQueries[i]), i + 1, failAt)

\* Lines 394-397, r being what the loop over the statements returned
tryFlushToMainTableEnd(r) ==
    IF r.err # "nil"
    THEN r
    ELSE [t |-> [r.t EXCEPT !.bufferFlushCnt = 0, !.bufferRowId = 0],
          err |-> "nil"]

tryFlushToMainTable(t, failAt) ==
    tryFlushToMainTableEnd(tryFlushQueries(t, 1, failAt))

\* Lines 420-432, r being what tryFlushToMainTable returned
promotionAttemptEnd(l, r) ==
    IF r.err = "nil"
    THEN [l EXCEPT !.t = r.t, !.err = "nil", !.made = @ + 1, !.done = TRUE]
    ELSE IF Aborts(r.t, l.attempt + 1, l.cancelAt)
    THEN [l EXCEPT !.t = [r.t EXCEPT !.ctxDone = TRUE],
                   !.err = "abort retrying", !.made = @ + 1, !.done = TRUE]
    ELSE [l EXCEPT !.t = r.t, !.err = r.err, !.made = @ + 1,
                   !.attempt = @ + 1]

\* The body of the retry loop of FlushToMainTable, lines 419-432; the
\* first l.fails attempts fail at statement l.failAt
promotionAttempt(l) ==
    promotionAttemptEnd(l, tryFlushToMainTable(l.t,
                               IF l.attempt < l.fails THEN l.failAt ELSE 0))

RECURSIVE promotionLoop(_, _)
promotionLoop(l, k) ==
    IF k = 0 \/ l.done \/ ~(l.attempt < maxAttempts)
    THEN l
    ELSE promotionLoop(promotionAttempt(l), k - 1)

RECURSIVE promotionBlocks(_, _)
promotionBlocks(l, b) ==
    IF b = 0 \/ l.done
    THEN l
    ELSE promotionBlocks(promotionLoop(l, BlockLen), b - 1)

\* How the retry loop ended in l.  ok: the last attempt made succeeded;
\* aborted: the loop returned "abort retrying"
promotionReturn(l) ==
    [t |-> l.t, ok |-> l.err = "nil" /\ l.made > 0,
     aborted |-> l.err = "abort retrying", attempts |-> l.made]

\* Lines 418-433
promotion(t, fails, failAt, cancelAt) ==
    promotionReturn(promotionBlocks(RetryLoop(t, fails, failAt, cancelAt), Blocks))

\* persStorage.Write(key, lsn.FormattedBytes())
WriteCheckpoint(t, lsn, ok) ==
    IF ok THEN [t |-> [t EXCEPT !.checkpoint = lsn], err |-> "nil"]
          ELSE [t |-> t, err |-> "store"]

\* What the promotion did, for the record of the call
PromotionLog(p) ==
    [promoRun |-> TRUE, promoAttempts |-> p.attempts, promoOk |-> p.ok]

NoPromotionLog ==
    [promoRun |-> FALSE, promoAttempts |-> 0, promoOk |-> FALSE,
     truncated |-> FALSE, ckptWritten |-> FALSE]

\* Lines 442-447, w being what persStorage.Write returned
FlushToMainTableWritten(w, log) ==
    [t |-> w.t,
     err |-> IF w.err # "nil" THEN "could not save lsn" ELSE "nil",
     truncated |-> TRUE,
     ckptWritten |-> w.err = "nil"] @@ log

\* A FlushToMainTable that writes the checkpoint during a sync too
FlushToMainTableTruncated_AlwaysWrites(lsn, in, tr, log) ==
    IF tr.err # "nil"
    THEN [t |-> tr.t, err |-> "could not truncate buffer table",
          truncated |-> FALSE, ckptWritten |-> FALSE] @@ log
    ELSE FlushToMainTableWritten(WriteCheckpoint(tr.t, lsn, in.writeOk), log)

\* Lines 436-447, tr being what the truncate of the buffer table returned
FlushToMainTableTruncated(lsn, in, tr, log) ==
    IF tr.err # "nil"
    THEN [t |-> tr.t, err |-> "could not truncate buffer table",
          truncated |-> FALSE, ckptWritten |-> FALSE] @@ log
    ELSE IF ~tr.t.inSync
    THEN FlushToMainTableWritten(WriteCheckpoint(tr.t, lsn, in.writeOk), log)
    ELSE [t |-> tr.t, err |-> "nil", truncated |-> TRUE,
          ckptWritten |-> FALSE] @@ log

\* Lines 435-439
truncateBufferTable(t, ok) ==
    IF t.cfgBufferTable THEN truncateTable(t, "buffer", ok)
                        ELSE [t |-> t, err |-> "nil"]

\* Lines 428-447, p being how the retry loop ended: after the loop the
\* error of the last attempt is not looked at
FlushToMainTablePromoted(lsn, in, p, log) ==
    IF p.aborted
    THEN [t |-> p.t, err |-> "abort retrying", truncated |-> FALSE,
          ckptWritten |-> FALSE] @@ log @@ PromotionLog(p)
    ELSE FlushToMainTableTruncated(lsn, in,
                                   truncateBufferTable(p.t, in.truncOk),
                                   log @@ PromotionLog(p))

\* Lines 405-447, f being what flushBuffer returned
FlushToMainTableFlushed(lsn, in, f, log) ==
    IF f.err # "nil"
    THEN [t |-> f.t, err |-> "could not flush buffers"] @@ log @@ NoPromotionLog
    ELSE IF ~f.t.cfgBufferTable \/ f.t.bufferFlushCnt = 0
    THEN [t |-> f.t, err |-> "nil"] @@ log @@ NoPromotionLog
    ELSE FlushToMainTablePromoted(lsn, in,
                                  promotion(f.t, in.promoFails, in.promoFailAt,
                                            in.promoCancel),
                                  log)

FlushToMainTableLogged(t, lsn, in, f) ==
    FlushToMainTableFlushed(lsn, in, f, FlushLog(t, f))

\* in: the behaviour of the sink and of the store during the call
\*   flushFails, flushCancel   the buffer flush
\*   promoFails, promoFailAt, promoCancel   the promotion queries
\*   truncOk, writeOk          the truncate and the checkpoint write
FlushToMainTable(t, lsn, in) ==
    FlushToMainTableLogged(t, lsn, in,
                           flushBuffer(t, in.flushFails, in.flushCancel))

----------------------------------------------------------------------------
\* Initial sync

StartSync(t) == [t EXCEPT !.inSync = TRUE]

\* Lines 189-195: truncate the aux table, record the snapshot LSN
genSyncTruncateAux(t, snapshotLSN, ok) ==
    LET tr == IF ~ChSyncAuxTableIsEmpty
              THEN truncateTable(t, "aux", ok)
              ELSE [t |-> t, err |-> "nil"]
    IN  IF tr.err # "nil"
        THEN [t |-> tr.t, err |-> "could not truncate aux table"]
        ELSE [t |-> [tr.t EXCEPT !.syncSnapshotLSN = snapshotLSN], err |-> "nil"]

\* Lines 197-210: truncate the main table, reset syncedRows
genSyncTruncateMain(t, ok) ==
    LET tr == IF ~InitSyncSkipTruncate
              THEN truncateTable(t, "main", ok)
              ELSE [t |-> t, err |-> "nil"]
    IN  IF tr.err # "nil"
        THEN [t |-> tr.t, err |-> "could not truncate main table"]
        ELSE [t |-> [tr.t EXCEPT !.syncedRows = 0], err |-> "nil"]

\* The rows of the snapshot, as convertRow hands them to the bulk uploader
SnapshotRows(n) == [k \in 1..n |-> Row(0 - k, 0, FALSE, 0)]

\* Lines 212-236: the COPY stream is written to the bulk uploader while the
\* background task started in line 217 uploads it to the main table.
\* n rows are copied (genSyncWrite counts each in syncedRows); outcome is
\* what the uploader and the COPY report.  upload tells what has become of
\* the background task when genSync goes on or returns: "idle" it was not
\* launched, "running" it was launched and its input is still open,
\* "draining" bulkUploader.Finish has been called.
genSyncCopy(t, n, outcome) ==
    IF outcome = "start"
    THEN [t |-> t, err |-> "could not init bulkuploader", upload |-> "idle"]
    ELSE IF outcome = "copy"
    THEN [t |-> [t EXCEPT !.syncedRows = n], err |-> "could not copy",
          upload |-> "running"]
    ELSE IF outcome = "finish"
    THEN [t |-> [t EXCEPT !.syncedRows = n],
          err |-> "could not finalize bulkuploader", upload |-> "draining"]
    ELSE IF outcome = "mismatch"
    THEN [t |-> [t EXCEPT !.syncedRows = n],
          err |-> "number of rows doesn't match", upload |-> "draining"]
    ELSE [t |-> [t EXCEPT !.syncedRows = n], err |-> "nil",
          upload |-> "draining"]

CopyOutcomes == {"ok", "start", "copy", "finish", "mismatch"}

\* bulkUploader.BulkUpload(ChMainTable, chUsedColumns), line 218: at the end
\* of its input the rows written to the uploader are in the main table
BulkUpload(t, ok) ==
    IF ok
    THEN [t |-> [t EXCEPT !.mainTable = @ \o SnapshotRows(t.syncedRows)],
          err |-> "nil"]
    ELSE [t |-> t, err |-> "could not load to CH"]

RECURSIVE InsertByRowId(_, _)
InsertByRowId(r, s) ==
    IF s = <<>> THEN <<r>>
    ELSE IF r.auxId < Head(s).auxId THEN <<r>> \o s
    ELSE <<Head(s)>> \o InsertByRowId(r, Tail(s))

\* ORDER BY cfg.BufferTableRowIdColumn
RECURSIVE OrderByRowId(_)
OrderByRowId(s) ==
    IF s = <<>> THEN <<>> ELSE InsertByRowId(Head(s), OrderByRowId(Tail(s)))

\* The columns chUsedColumns of a row of the aux table
UsedColumns(r) == Row(r.id, r.lsn, FALSE, 0)

\* INSERT INTO main(cols) SELECT cols FROM aux WHERE lsn > snapshotLSN
\* ORDER BY row id (lines 256-265)
MergeAux(t, snapshotLSN) ==
    LET sel == SelectSeq(t.syncAuxTable, LAMBDA r : r.lsn > snapshotLSN)
        ord == OrderByRowId(sel)
    IN  [t EXCEPT !.mainTable = @ \o [i \in 1..Len(ord) |-> UsedColumns(ord[i])]]

\* A post-sync that clears inSync before it looks at the error of the write
genSyncPostSyncWritten_ClearsFirst(w, log) ==
    [t |-> [w.t EXCEPT !.inSync = FALSE],
     err |-> IF w.err # "nil" THEN "could not save lsn" ELSE "nil",
     ckptWritten |-> w.err = "nil"] @@ log

\* Lines 273-278, w being what persStorage.Write returned
genSyncPostSyncWritten(w, log) ==
    IF w.err # "nil"
    THEN [t |-> w.t, err |-> "could not save lsn", ckptWritten |-> FALSE] @@ log
    ELSE [t |-> [w.t EXCEPT !.inSync = FALSE], err |-> "nil",
          ckptWritten |-> TRUE] @@ log

\* Lines 268-278, tr being what the truncate of the aux table returned
genSyncPostSyncTruncated(snapshotLSN, in, tr, log) ==
    IF tr.err # "nil"
    THEN [t |-> tr.t, err |-> "could not truncate table",
          ckptWritten |-> FALSE] @@ log
    ELSE genSyncPostSyncWritten(WriteCheckpoint(tr.t, snapshotLSN, in.writeOk),
                                log)

\* Lines 267-271
truncateAuxTable(t, ok) ==
    IF ~ChSyncAuxTableIsEmpty THEN truncateTable(t, "aux", ok)
                              ELSE [t |-> t, err |-> "nil"]

\* A post-sync that truncates the aux table before it merges it
genSyncPostSyncFlushed_TruncateFirst(snapshotLSN, in, f, log) ==
    IF f.err # "nil"
    THEN [t |-> f.t, err |-> "could not flush buffer", ckptWritten |-> FALSE] @@ log
    ELSE IF ~in.mergeOk
    THEN [t |-> f.t, err |-> "could not merge with sync aux table",
          ckptWritten |-> FALSE] @@ log
    ELSE genSyncPostSyncTruncated(snapshotLSN, in,
                                  [t |-> MergeAux(truncateAuxTable(f.t, TRUE).t,
                                                  snapshotLSN),
                                   err |-> IF in.truncOk THEN "nil" ELSE "sink"],
                                  log)

\* Lines 250-278, f being what flushBuffer returned
genSyncPostSyncFlushed(snapshotLSN, in, f, log) ==
    IF f.err # "nil"
    THEN [t |-> f.t, err |-> "could not flush buffer", ckptWritten |-> FALSE] @@ log
    ELSE IF ~in.mergeOk
    THEN [t |-> f.t, err |-> "could not merge with sync aux table",
          ckptWritten |-> FALSE] @@ log
    ELSE genSyncPostSyncTruncated(snapshotLSN, in,
                                  truncateAuxTable(MergeAux(f.t, snapshotLSN),
                                                   in.truncOk),
                                  log)

genSyncPostSyncLogged(t, snapshotLSN, in, f) ==
    genSyncPostSyncFlushed(snapshotLSN, in, f, FlushLog(t, f))

\* Lines 247-278, under the engine mutex.
\* in: flushFails, flushCancel, mergeOk, truncOk, writeOk
genSyncPostSync(t, snapshotLSN, in) ==
    genSyncPostSyncLogged(t, snapshotLSN, in,
                          flushBuffer(t, in.flushFails, in.flushCancel))

----------------------------------------------------------------------------
\* Truncate truncates main and buffer(if used) tables

Truncate(t, mainOk, bufOk) ==
    LET t1 == [t EXCEPT !.bufferCmdId = 0]
        m == truncateTable(t1, "main", mainOk)
    IN  IF m.err # "nil"
        THEN m
        ELSE IF ~m.t.cfgBufferTable
        THEN [t |-> m.t, err |-> "nil"]
        ELSE truncateTable(m.t, "buffer", bufOk)

----------------------------------------------------------------------------
\* The record of a call: its arguments, what it returned, and what it did

NoCall(t) ==
    [op |-> "none", lsn |-> 0, isNil |-> FALSE, n |-> 0, err |-> "nil",
     mergeIsNeeded |-> FALSE, dropped |-> FALSE, flushCalled |-> FALSE,
     fails |-> 0, cancel |-> 0, attempts |-> 0, flushErr |-> "nil",
     target |-> "none", shipped |-> <<>>,
     promoRun |-> FALSE, promoFails |-> 0, promoAttempts |-> 0,
     promoOk |-> FALSE, truncated |-> FALSE, ckptWritten |-> FALSE]

\* The inputs of a call of FlushToMainTable: the behaviour of the sink and
\* of the store during the call
FlushInputs ==
    {in \in [flushFails : FailChoices, flushCancel : CancelChoices,
             promoFails : FailChoices, promoFailAt : 1..Len(flushQueries),
             promoCancel : CancelChoices, truncOk : BOOLEAN, writeOk : BOOLEAN] :
        /\ <<in.flushFails, in.flushCancel>> \in RetryInputs
        /\ <<in.promoFails, in.promoCancel>> \in RetryInputs
        /\ in.promoFails = 0 => in.promoFailAt = 1}

\* The inputs of the post-sync part of genSync
PostSyncInputs ==
    {in \in [flushFails : FailChoices, flushCancel : CancelChoices,
             mergeOk : BOOLEAN, truncOk : BOOLEAN, writeOk : BOOLEAN] :
        <<in.flushFails, in.flushCancel>> \in RetryInputs}

\* The number of sink and store operations that fail under the inputs
Bit(b) == IF b THEN 1 ELSE 0

FlushFaults(in) ==
    Bit(in.flushFails > 0) + Bit(in.promoFails > 0) + Bit(~in.truncOk)
    + Bit(~in.writeOk)

PostSyncFaults(in) ==
    Bit(in.flushFails > 0) + Bit(~in.mergeOk) + Bit(~in.truncOk) + Bit(~in.writeOk)

\* The inputs with at most k failing operations
FlushInputsUpTo == [k \in 0..MaxFaults |-> {in \in FlushInputs : FlushFaults(in) <= k}]

PostSyncInputsUpTo ==
    [k \in 0..MaxFaults |-> {in \in PostSyncInputs : PostSyncFaults(in) <= k}]

RetryInputsUpTo ==
    [k \in 0..MaxFaults |-> {in \in RetryInputs : Bit(in[1] > 0) <= k}]

\* The failing operations still allowed
FaultsLeft == calls.maxFaults - calls.faults

----------------------------------------------------------------------------
\* Actions

\* The state after NewGenericTable, in a run with at most maxCalls calls of
\* the stream, in which at most maxFaults operations of the sink or the
\* store fail, and with at most maxSyncFaults failing operations in each
\* part of genSync; sync is "none" when the table is still to be synced in
\* the run, "off" otherwise
Start(maxCalls, maxFaults, maxSyncFaults, sync) ==
    /\ cfgBufferTable \in BOOLEAN
    /\ inSync = FALSE
    /\ bufferCmdId = 0
    /\ bufferRowId = 0
    /\ bufferFlushCnt = 0
    /\ auxTblRowID = 0
    /\ syncSnapshotLSN = 0
    /\ syncedRows = 0
    /\ buffer = <<>>
    /\ mainTable = <<>>
    /\ bufferTable = <<>>
    /\ syncAuxTable = <<>>
    /\ checkpoint = 0
    /\ ctxDone = FALSE
    /\ mutex = "free"
    /\ syncPc = sync
    /\ syncArg = 0
    /\ bulkUpload = "idle"
    /\ history = <<>>
    /\ calls = [n |-> 0, lsn |-> 1, faults |-> 0, after |-> 0, rows |-> 0,
                truncates |-> 0,
                maxCalls |-> maxCalls, maxFaults |-> maxFaults,
                maxSyncFaults |-> maxSyncFaults]
    /\ last = NoCall(Self)

\* A table that is synced while the stream is applied; the calls of the
\* stream meet no failing operation
Init == Start(MaxCalls, 0, 0, "none")

\* A table that is not synced in the run; the calls meet failing operations
InitFaults == Start(MaxCallsFaults, MaxFaults, 0, "off")

\* A table whose sync meets failing operations
InitSyncFaults == Start(MaxCallsSync, 0, MaxFaults, "none")

\* A further call fits the bounds
CallFits ==
    /\ calls.n < calls.maxCalls
    /\ calls.faults > 0 => calls.after < MaxAfterFault

\* The engine serves calls until a sync fails: the table is then synced
\* again from scratch at the next start
Serving == syncPc # "failed"

\* Begin: t.Lock()
Call_Begin ==
    /\ Serving
    /\ mutex = "free"
    /\ mutex' = "tx"
    /\ last' = [NoCall(Self) EXCEPT !.op = "Begin"]
    /\ UNCHANGED <<cfgBufferTable, inSync, bufferCmdId, bufferRowId,
                   bufferFlushCnt, auxTblRowID, syncSnapshotLSN, syncedRows,
                   buffer, mainTable, bufferTable, syncAuxTable, checkpoint,
                   ctxDone, syncPc, syncArg, bulkUpload, history, calls>>

\* Commit: t.Unlock()
Call_Commit ==
    /\ mutex = "tx"
    /\ mutex' = "free"
    /\ last' = [NoCall(Self) EXCEPT !.op = "Commit"]
    /\ UNCHANGED <<cfgBufferTable, inSync, bufferCmdId, bufferRowId,
                   bufferFlushCnt, auxTblRowID, syncSnapshotLSN, syncedRows,
                   buffer, mainTable, bufferTable, syncAuxTable, checkpoint,
                   ctxDone, syncPc, syncArg, bulkUpload, history, calls>>

\* The LSNs of the events still to come: the stream delivers them in order
StreamLSNs == {l \in LSNs : l >= calls.lsn}

\* One DML command of the transaction that holds the mutex
Call_processChTuples ==
    /\ Serving
    /\ mutex = "tx"
    /\ CallFits
    /\ \E lsn \in StreamLSNs, isNil \in BOOLEAN, n \in 0..MaxTuples,
          in \in RetryInputsUpTo[FaultsLeft] :
          /\ isNil <=> n = 0
          /\ \E r \in {processChTuples(Self, lsn, isNil, n, calls.rows + 1,
                                       in[1], in[2])} :
                 /\ r.target = "none" => in = <<0, 0>>
                 /\ Install(r.t)
                 /\ history' = history \o r.rows
                 /\ last' = [NoCall(Self) EXCEPT
                                !.op = "processChTuples", !.lsn = lsn,
                                !.isNil = isNil, !.n = n, !.err = r.err,
                                !.mergeIsNeeded = r.mergeIsNeeded,
                                !.dropped = r.dropped,
                                !.flushCalled = r.flushCalled,
                                !.fails = in[1], !.cancel = in[2],
                                !.flushErr = r.flushErr,
                                !.attempts = r.attempts, !.target = r.target,
                                !.shipped = r.shipped]
                 /\ calls' = [calls EXCEPT !.n = @ + 1,
                                           !.after = @ + Bit(calls.faults > 0),
                                           !.rows = @ + Len(r.rows),
                                           !.lsn = lsn,
                                           !.faults = @ + Bit(in[1] > 0)]
    /\ UNCHANGED <<mutex, syncPc, syncArg, bulkUpload>>

\* A TRUNCATE of the source table, inside a transaction
Call_Truncate ==
    /\ Serving
    /\ mutex = "tx"
    /\ CallFits
    /\ \E mainOk \in BOOLEAN, bufOk \in BOOLEAN :
          \E r \in {Truncate(Self, mainOk, bufOk)},
             faults \in {Bit(~mainOk) + Bit(~bufOk)} :
              /\ faults <= FaultsLeft
              /\ ~bufOk => mainOk /\ cfgBufferTable
              /\ Install(r.t)
              /\ last' = [NoCall(Self) EXCEPT !.op = "Truncate",
                                             !.lsn = calls.lsn, !.err = r.err]
              /\ history' = <<>>
              /\ calls' = [calls EXCEPT !.n = @ + 1,
                                        !.after = @ + Bit(calls.faults > 0),
                                        !.truncates = @ + 1,
                                        !.faults = @ + faults]
    /\ UNCHANGED <<mutex, syncPc, syncArg, bulkUpload>>

\* The orchestrator promotes up to the position of the stream
Call_FlushToMainTable ==
    /\ Serving
    /\ mutex = "free"
    /\ CallFits
    /\ \E in \in FlushInputsUpTo[FaultsLeft] :
          \E r \in {FlushToMainTable(Self, calls.lsn, in)} :
              /\ in.flushFails > 0 => r.target # "none"
              /\ in.promoFails > 0 => r.promoRun
              /\ ~in.truncOk => r.err = "could not truncate buffer table"
              /\ ~in.writeOk => r.err = "could not save lsn"
              /\ Install(r.t)
              /\ last' = [NoCall(Self) EXCEPT
                             !.op = "FlushToMainTable", !.lsn = calls.lsn,
                             !.err = r.err, !.flushCalled = TRUE,
                             !.fails = in.flushFails,
                             !.cancel = in.flushCancel,
                             !.flushErr = r.flushErr,
                             !.attempts = r.attempts, !.target = r.target,
                             !.shipped = r.shipped, !.promoRun = r.promoRun,
                             !.promoFails = in.promoFails,
                             !.promoAttempts = r.promoAttempts,
                             !.promoOk = r.promoOk, !.truncated = r.truncated,
                             !.ckptWritten = r.ckptWritten]
              /\ calls' = [calls EXCEPT !.n = @ + 1,
                                           !.after = @ + Bit(calls.faults > 0),
                                           !.faults = @ + FlushFaults(in)]
    /\ UNCHANGED <<mutex, syncPc, syncArg, bulkUpload, history>>

\* The initial sync is run once: StartSync, then genSync.  The snapshot
\* that genSync is to copy is exported when StartSync has returned: its LSN
\* is not below the position of the stream, and the stream goes on before
\* genSync is called with it.
Call_StartSync ==
    /\ mutex = "free"
    /\ syncPc = "none"
    /\ Install(StartSync(Self))
    /\ syncPc' = "started"
    /\ \E snapshotLSN \in SnapshotLSNs :
          /\ snapshotLSN >= calls.lsn
          /\ syncArg' = snapshotLSN
    /\ last' = [NoCall(Self) EXCEPT !.op = "StartSync"]
    /\ UNCHANGED <<mutex, bulkUpload, history, calls>>

\* genSync returns err
GenSyncReturns(err, lsn) ==
    /\ syncPc' = IF err = "nil" THEN "done" ELSE "failed"
    /\ last' = [NoCall(Self) EXCEPT !.op = "genSync", !.lsn = lsn, !.err = err]

\* genSync goes on to its next part
GenSyncGoes(pc) ==
    /\ syncPc' = pc
    /\ last' = [NoCall(Self) EXCEPT !.op = "genSync running"]

\* genSync is called after StartSync; it runs lines 189-195 without the mutex
GenSync_TruncateAux ==
    /\ syncPc = "started"
    /\ \E ok \in BOOLEAN :
          \E r \in {genSyncTruncateAux(Self, syncArg, ok)} :
              /\ Bit(~ok) <= calls.maxSyncFaults
              /\ Install(r.t)
              /\ IF r.err # "nil"
                 THEN GenSyncReturns(r.err, syncArg)
                 ELSE GenSyncGoes("copy")
    /\ UNCHANGED <<mutex, syncArg, bulkUpload, history, calls>>

\* A row received during the sync
InSyncRow(row) == row.aux

\* Lines 197-236, without the mutex: the main table is truncated, the
\* background task is launched and the snapshot is written to the uploader;
\* genSync then waits in line 240 for the result of the task
GenSync_Copy ==
    /\ syncPc = "copy"
    /\ \E ok \in BOOLEAN, n \in 0..MaxSnapshotRows, outcome \in CopyOutcomes :
          \E r1 \in {genSyncTruncateMain(Self, ok)},
             faults \in {Bit(~ok) + Bit(outcome # "ok")} :
          \E r \in {IF r1.err # "nil" THEN r1 ELSE genSyncCopy(r1.t, n, outcome)} :
              /\ faults <= calls.maxSyncFaults
              /\ ~ok => outcome = "ok" /\ n = 0
              /\ Install(r.t)
              /\ history' = IF r1.err = "nil" THEN SelectSeq(history, InSyncRow)
                                              ELSE history
              /\ bulkUpload' = IF r1.err # "nil" THEN bulkUpload ELSE r.upload
              /\ IF r.err # "nil"
                 THEN GenSyncReturns(r.err, syncArg)
                 ELSE GenSyncGoes("await")
    /\ UNCHANGED <<mutex, syncArg, calls>>

\* The background task, lines 217-219: BulkUpload returns at the end of its
\* input and the task sends the result to loaderErrCh, which has room for
\* it, and ends.  A genSync that waits in line 240 receives the result.
BulkUpload_Returns ==
    /\ bulkUpload = "draining"
    /\ bulkUpload' = "done"
    /\ \E ok \in BOOLEAN :
          \E r \in {BulkUpload(Self, ok)} :
              /\ Bit(~ok) <= calls.maxSyncFaults
              /\ Install(r.t)
              /\ IF syncPc # "await"
                 THEN /\ syncPc' = syncPc
                      /\ last' = [NoCall(Self) EXCEPT !.op = "BulkUpload",
                                                     !.err = r.err]
                 ELSE IF r.err # "nil"
                 THEN GenSyncReturns(r.err, syncArg)
                 ELSE GenSyncGoes("postSync")
    /\ UNCHANGED <<mutex, syncArg, history, calls>>

\* t.Lock() .. return, lines 247-278
GenSync_PostSync ==
    /\ syncPc = "postSync"
    /\ mutex = "free"
    /\ \E in \in PostSyncInputsUpTo[calls.maxSyncFaults] :
          \E r \in {genSyncPostSync(Self, syncArg, in)} :
              /\ in.flushFails > 0 => r.target # "none"
              /\ ~in.mergeOk => r.err = "could not merge with sync aux table"
              /\ ~in.truncOk => r.err = "could not truncate table"
              /\ ~in.writeOk => r.err = "could not save lsn"
              /\ Install(r.t)
              /\ syncPc' = IF r.err = "nil" THEN "done" ELSE "failed"
              /\ last' = [NoCall(Self) EXCEPT
                             !.op = "genSync", !.lsn = syncArg, !.err = r.err,
                             !.flushCalled = TRUE, !.fails = in.flushFails,
                             !.cancel = in.flushCancel,
                             !.flushErr = r.flushErr,
                             !.attempts = r.attempts, !.target = r.target,
                             !.shipped = r.shipped,
                             !.ckptWritten = r.ckptWritten]
    /\ UNCHANGED <<mutex, syncArg, bulkUpload, history, calls>>

Next ==
    \/ Call_Begin
    \/ Call_Commit
    \/ Call_processChTuples
    \/ Call_Truncate
    \/ Call_FlushToMainTable
    \/ Call_StartSync
    \/ GenSync_TruncateAux
    \/ GenSync_Copy
    \/ BulkUpload_Returns
    \/ GenSync_PostSync

Spec == Init /\ [][Next]_vars

NextFaults ==
    \/ Call_Begin
    \/ Call_Commit
    \/ Call_processChTuples
    \/ Call_Truncate
    \/ Call_FlushToMainTable

SpecFaults == InitFaults /\ [][NextFaults]_vars

SpecSyncFaults == InitSyncFaults /\ [][Next]_vars

----------------------------------------------------------------------------
\* Properties

\* The step of a run that is a call of FlushToMainTable
FlushToMainTableStep == calls'.n = calls.n + 1 /\ last'.op = "FlushToMainTable"

\* The step of a run that is a call of processChTuples
ProcessChTuplesStep == calls'.n = calls.n + 1 /\ last'.op = "processChTuples"

\* The number of places of the sink (main table, buffer table, sync aux
\* table) that hold the row with arrival number id, each copy counted
Places(id) ==
    Cardinality({i \in 1..Len(mainTable) : mainTable[i].id = id})
    + Cardinality({i \in 1..Len(bufferTable) : bufferTable[i].id = id})
    + Cardinality({i \in 1..Len(syncAuxTable) : syncAuxTable[i].id = id})

\* C1: FlushToMainTable(lsn) writes lsn to the checkpoint store only after,
\* in that same call, the delta-buffer flush succeeded, every promotion
\* query executed successfully and the buffer table was truncated; in every
\* call where one of the three did not succeed (promotion failing on all
\* 100 attempts included) the checkpoint keeps its previous value.
C1_CheckpointOnlyAfterFlushPromotionTruncate ==
    [][FlushToMainTableStep =>
         LET allThree == /\ last'.flushErr = "nil"
                         /\ last'.promoOk
                         /\ last'.truncated
         IN  /\ last'.ckptWritten => allThree
             /\ ~allThree => checkpoint' = checkpoint]_vars

\* C2: the LSN persisted in the checkpoint store never moves backward,
\* across any sequence and interleaving of FlushToMainTable calls and
\* genSync completions.
C2_CheckpointNeverMovesBackward == [][checkpoint' >= checkpoint]_vars

\* The rows the sink has to hold: the rows accepted outside sync, and of the
\* rows accepted during the sync, once genSync has recorded its snapshot
\* LSN, those with lsn >= snapshotLSN (the others are part of the snapshot)
Expected(row) ==
    (row.aux /\ syncPc \in {"copy", "await", "postSync", "done"})
        => row.lsn >= syncSnapshotLSN

\* C3: when no retried sink operation fails on all its attempts, every row
\* written to the delta buffer and not dropped is, after each completed
\* FlushToMainTable or genSync, present exactly once in exactly one place:
\* the main table or an intermediate table; never in both, never twice,
\* never in neither.
C3_EachRowExactlyOnceInOnePlace ==
    (last.op \in {"FlushToMainTable", "genSync"} /\ last.err = "nil")
        => \A i \in 1..Len(history) :
              Expected(history[i]) => Places(history[i].id) = 1

\* C4: when genSync(snapshotLSN) completed successfully, the number of rows
\* of the main table after a final flush is the number of snapshot rows
\* copied plus the number of rows of live events with lsn >= snapshotLSN,
\* received during the sync or after it.
C4_RowCountAfterSync ==
    (/\ syncPc = "done"
     /\ calls.truncates = 0
     /\ last.op = "FlushToMainTable"
     /\ last.err = "nil")
        => Len(mainTable)
             = syncedRows
               + Cardinality({i \in 1..Len(history) :
                                 history[i].lsn >= syncSnapshotLSN})

\* A call of processChTuples(lsn, tuples) outside sync with
\* lsn < syncSnapshotLSN, and one with lsn >= syncSnapshotLSN
StaleCall == ProcessChTuplesStep /\ ~inSync /\ last'.lsn < syncSnapshotLSN

FreshCall == ProcessChTuplesStep /\ ~inSync /\ last'.lsn >= syncSnapshotLSN

\* The call dropped the whole batch: nothing reached the delta buffer or a
\* table, the counters are unchanged, no flush, mergeNeeded = false
DroppedWhole ==
    /\ buffer' = buffer
    /\ history' = history
    /\ bufferCmdId' = bufferCmdId
    /\ bufferRowId' = bufferRowId
    /\ bufferFlushCnt' = bufferFlushCnt
    /\ mainTable' = mainTable
    /\ bufferTable' = bufferTable
    /\ syncAuxTable' = syncAuxTable
    /\ ~last'.flushCalled
    /\ ~last'.mergeIsNeeded
    /\ last'.err = "nil"

\* The rows the step added to the accepted rows
NewRows == SubSeq(history', Len(history) + 1, Len(history'))

\* The call wrote every row of the batch to the delta buffer
Written ==
    /\ Len(NewRows) = last'.n
    /\ history' = history \o NewRows
    /\ \A i \in 1..Len(NewRows) : NewRows[i].lsn = last'.lsn
    /\ buffer \o NewRows
         = IF last'.target # "none" /\ last'.flushErr = "nil"
           THEN last'.shipped
           ELSE buffer'

\* C5, as stated: every call of processChTuples(lsn, tuples) outside sync
\* with lsn < syncSnapshotLSN drops the whole batch (nothing appended,
\* bufferCmdId, bufferRowId and bufferFlushCnt unchanged, no flush,
\* mergeNeeded = false), and a batch with lsn >= syncSnapshotLSN is written.
C5_StaleBatchDroppedAsStated ==
    [][/\ StaleCall => DroppedWhole
       /\ (FreshCall /\ last'.n > 0) => Written]_vars

\* C5: a call of processChTuples(lsn, tuples) outside sync with
\* lsn < syncSnapshotLSN and at least one tuple drops the whole batch
\* (nothing appended, the three counters unchanged, no flush,
\* mergeNeeded = false), while a batch with lsn >= syncSnapshotLSN is
\* written.  A nil tuple set is not tested against syncSnapshotLSN.
C5_StaleBatchDropped ==
    [][/\ (StaleCall /\ last'.n > 0) => DroppedWhole
       /\ (FreshCall /\ last'.n > 0) => Written]_vars

\* A batch of MaxTuples rows was dropped as stale after the sync
C5_Witness ==
    /\ last.op = "processChTuples"
    /\ last.dropped
    /\ last.n = MaxTuples
    /\ ~inSync
    /\ last.lsn < syncSnapshotLSN

\* C6: in every state between engine operations, also after a call in which
\* a flush failed on all attempts or was cancelled,
\* bufferCmdId <= maxBufferLength.
C6_BufferCmdIdBounded == bufferCmdId <= MaxBufferLength

\* C7: every delta-buffer flush is routed by the engine state at flush time:
\* in sync to the sync aux table, every row carrying the trailing
\* (auxTblRowID, lsn) fields; outside sync to the buffer table when one is
\* configured and to the main table otherwise, the rows without those fields.
C7_FlushRouting ==
    last.target # "none" =>
        LET inSyncAtFlush == last.op = "genSync" \/ inSync
        IN  IF inSyncAtFlush
            THEN /\ last.target = "aux"
                 /\ \A i \in 1..Len(last.shipped) : last.shipped[i].aux
            ELSE /\ last.target = IF cfgBufferTable THEN "buffer" ELSE "main"
                 /\ \A i \in 1..Len(last.shipped) : ~last.shipped[i].aux

\* C8: processChTuples triggers a flush if and only if, after counting the
\* current command, bufferCmdId has reached maxBufferLength; a flush that
\* succeeds sets bufferCmdId to 0 and adds exactly 1 to bufferFlushCnt; a
\* flush that fails changes neither counter.
C8_FlushIffReachedMaxBufferLength ==
    [][ProcessChTuplesStep =>
         LET counted == bufferCmdId
                        + Bit(~last'.isNil /\ ~last'.dropped)
         IN  /\ last'.flushCalled <=> counted >= MaxBufferLength
             /\ (last'.flushCalled /\ last'.flushErr = "nil")
                   => /\ bufferCmdId' = 0
                      /\ bufferFlushCnt' = bufferFlushCnt + 1
             /\ (last'.flushCalled /\ last'.flushErr # "nil")
                   => /\ bufferCmdId' = counted
                      /\ bufferFlushCnt' = bufferFlushCnt]_vars

\* C9, as stated: for every call of processChTuples that returns without
\* error, mergeNeeded is true if and only if a buffer table is configured
\* and bufferFlushCnt >= flushThreshold at return, also when the batch was
\* dropped as stale.
C9_MergeNeededAsStated ==
    (last.op = "processChTuples" /\ last.err = "nil")
        => (last.mergeIsNeeded
              <=> (cfgBufferTable /\ bufferFlushCnt >= FlushThreshold))

\* C9: for every call of processChTuples that returns without error,
\* mergeNeeded is true if and only if a buffer table is configured,
\* bufferFlushCnt >= flushThreshold at return, and the batch was not dropped
\* as stale; a batch dropped as stale returns false.
C9_MergeNeeded ==
    (last.op = "processChTuples" /\ last.err = "nil")
        => (last.mergeIsNeeded
              <=> (/\ cfgBufferTable
                   /\ bufferFlushCnt >= FlushThreshold
                   /\ ~last.dropped))

\* A batch was dropped as stale while a promotion was due
C9_Witness ==
    /\ last.op = "processChTuples"
    /\ last.dropped
    /\ ~last.mergeIsNeeded
    /\ cfgBufferTable
    /\ bufferFlushCnt >= FlushThreshold

\* C10: flushBuffer ends after at most 100 attempts: with success at the
\* first attempt that succeeds, with the last sink error when all 100
\* attempts fail, and with "abort retrying", no further attempt made, when
\* the context is cancelled during the wait after a failed attempt; in the
\* cancelled case FlushToMainTable returns an error and the checkpoint is
\* unchanged.
C10_FlushBufferTerminates ==
    [][(calls'.n = calls.n + 1 /\ last'.flushCalled /\ last'.target # "none") =>
         LET \* the failed attempt after which the wait finds the context
             \* done, 0 if the context is not cancelled
             cancelAfter == IF ctxDone THEN 1 ELSE last'.cancel
             aborts == cancelAfter > 0 /\ last'.fails >= cancelAfter
         IN  /\ last'.attempts <= maxAttempts
             /\ aborts => /\ last'.flushErr = "abort retrying"
                          /\ last'.attempts = cancelAfter
             /\ (~aborts /\ last'.fails < maxAttempts)
                   => /\ last'.flushErr = "nil"
                      /\ last'.attempts = last'.fails + 1
             /\ (~aborts /\ last'.fails >= maxAttempts)
                   => /\ last'.flushErr = "could not flush buffer"
                      /\ last'.attempts = maxAttempts
             /\ (last'.op = "FlushToMainTable"
                 /\ last'.flushErr = "abort retrying")
                   => /\ last'.err # "nil"
                      /\ checkpoint' = checkpoint]_vars

\* FlushToMainTable was cancelled in the wait after the second failed
\* attempt of its buffer flush
C10_Witness ==
    /\ last.op = "FlushToMainTable"
    /\ last.flushErr = "abort retrying"
    /\ last.cancel = 2
    /\ last.attempts = 2
    /\ last.err # "nil"

\* C11: a sink failure that lasts through the whole retry budget is returned
\* as an error by the call that retried: a call whose buffer flush failed on
\* all 100 attempts returns an error, and a FlushToMainTable whose promotion
\* failed on all 100 attempts returns an error and does not truncate the
\* buffer table.
C11_ExhaustedRetriesSurfaceAsError ==
    /\ (/\ last.target # "none"
        /\ last.attempts = maxAttempts
        /\ last.flushErr # "nil") => last.err # "nil"
    /\ (/\ last.op = "FlushToMainTable"
        /\ last.promoRun
        /\ last.promoAttempts = maxAttempts
        /\ ~last.promoOk) => (last.err # "nil" /\ ~last.truncated)

\* A step of the task that runs genSync, or a step made while it runs, that
\* does not end the sync with success
GenSyncRuns == syncPc \in {"started", "copy", "await", "postSync"}

\* C12: whenever genSync returns an error, inSync is still true and the
\* persisted checkpoint has the value it had before the call: from the call
\* of genSync on, every step that does not end it with success, its error
\* returns among them, leaves the checkpoint as it is and inSync true.
C12_FailedSyncKeepsInSyncAndCheckpoint ==
    [][(GenSyncRuns /\ syncPc' # "done")
          => (checkpoint' = checkpoint /\ inSync /\ inSync')]_vars

\* genSync returned the error of the checkpoint write, on a table whose
\* checkpoint had been written before the sync
C12_Witness ==
    /\ syncPc = "failed"
    /\ last.op = "genSync"
    /\ last.err = "could not save lsn"
    /\ inSync
    /\ checkpoint > 0
    /\ checkpoint # syncArg

\* The step of genSync that runs lines 247-278 and returns nil
PostSyncSucceeds == syncPc = "postSync" /\ syncPc' = "done"

\* The rows that the merge of a table aux adds to the main table
Merged(aux) ==
    [i \in 1..Len(OrderByRowId(SelectSeq(aux, LAMBDA r : r.lsn > syncArg)))
        |-> UsedColumns(OrderByRowId(SelectSeq(aux, LAMBDA r : r.lsn > syncArg))[i])]

\* C13: a successful genSync does its post-sync steps in this order, under
\* the engine mutex and after the background upload has ended without
\* error: flush of the delta buffer to the aux table, merge of the aux
\* table into the main table, truncate of the aux table, write of
\* snapshotLSN as the checkpoint, inSync = false.  On return the checkpoint
\* is snapshotLSN, inSync is false, bufferCmdId is 0 and the aux table is
\* empty; and inSync is not false before the checkpoint of the sync is
\* written.
C13_PostSyncOrder ==
    [][/\ PostSyncSucceeds =>
            /\ mutex = "free" /\ mutex' = "free"
            /\ bulkUpload = "done"
            /\ last'.target \in {"none", "aux"}
            /\ last'.target = "aux" => last'.shipped = buffer
            /\ mainTable' = mainTable \o Merged(syncAuxTable \o last'.shipped)
            /\ syncAuxTable' = <<>>
            /\ last'.ckptWritten
            /\ checkpoint' = syncArg
            /\ ~inSync'
            /\ bufferCmdId' = 0
       /\ (GenSyncRuns /\ ~PostSyncSucceeds) => inSync']_vars

\* genSync returned nil after a post-sync that shipped rows to the aux
\* table and merged one of them into the main table
C13_Witness ==
    /\ syncPc = "done"
    /\ last.op = "genSync"
    /\ last.err = "nil"
    /\ last.target = "aux"
    /\ \E i \in 1..Len(last.shipped) : last.shipped[i].lsn > syncArg
    /\ ~inSync
    /\ checkpoint = syncArg
    /\ \E i \in 1..Len(mainTable) : mainTable[i].lsn > syncArg

\* bufferFlushCnt as FlushToMainTable finds it after its buffer flush
FlushCntAfterFlush ==
    bufferFlushCnt + Bit(last'.target # "none" /\ last'.flushErr = "nil")

\* C14: FlushToMainTable runs no promotion query, does not truncate the
\* buffer table, does not reset bufferFlushCnt and bufferRowId and does not
\* write the checkpoint when, after its buffer flush, no buffer table is
\* configured or bufferFlushCnt is 0; and called while inSync is true it
\* never writes the checkpoint, even when promotion and truncation succeed.
C14_FlushToMainTableSkips ==
    [][FlushToMainTableStep =>
         /\ (/\ last'.flushErr = "nil"
             /\ (~cfgBufferTable \/ FlushCntAfterFlush = 0))
               => /\ ~last'.promoRun
                  /\ ~last'.truncated
                  /\ ~last'.ckptWritten
                  /\ last'.err = "nil"
                  /\ bufferTable' = bufferTable
                  /\ bufferFlushCnt' = FlushCntAfterFlush
                  /\ bufferRowId' = bufferRowId
                  /\ checkpoint' = checkpoint
         /\ inSync => (~last'.ckptWritten /\ checkpoint' = checkpoint)]_vars

\* FlushToMainTable promoted and truncated during a sync and wrote no
\* checkpoint
C14_Witness ==
    /\ last.op = "FlushToMainTable"
    /\ inSync
    /\ last.promoOk
    /\ last.truncated
    /\ last.err = "nil"
    /\ ~last.ckptWritten
    /\ checkpoint = 0

\* C15: the fields inSync, bufferCmdId, bufferRowId, bufferFlushCnt,
\* auxTblRowID and syncSnapshotLSN are written only by the task that holds
\* the engine mutex: while a source transaction holds it, between Begin and
\* Commit, no step of another task changes them.
C15_FieldsWrittenUnderMutex ==
    [][(/\ mutex = "tx"
        /\ last'.op \notin {"processChTuples", "Truncate", "Commit"})
          => UNCHANGED <<inSync, bufferCmdId, bufferRowId, bufferFlushCnt,
                         auxTblRowID, syncSnapshotLSN>>]_vars

\* The rows of s are the last Len(s) rows accepted, in arrival order, when
\* n rows have been accepted
LatestRows(s, n) == \A i \in 1..Len(s) : s[i].id = n - Len(s) + i

\* The rows of s that carry a row id carry strictly increasing ones
RowIdsIncrease(s) ==
    \A i, j \in 1..Len(s) :
        (i < j /\ s[i].aux /\ s[j].aux) => s[i].auxId < s[j].auxId

\* The rows of s that were received from the stream are in arrival order
ArrivalOrder(s) ==
    \A i, j \in 1..Len(s) :
        (i < j /\ s[i].id > 0 /\ s[j].id > 0) => s[i].id < s[j].id

\* A step in which the accumulator was shipped to the sink
Shipped == last'.target # "none" /\ last'.flushErr = "nil"

\* C16: rows reach the sink in the order the engine received them.  The
\* accumulator always holds the rows accepted since the last flush, in
\* arrival order; a flush ships all of them, in that order, and appends
\* them to its target; so the flushes, one after the other, are the
\* accepted rows in arrival order.  Rows written during sync carry strictly
\* increasing row ids, and the rows the merge adds to the main table are in
\* arrival order.
C16_RowsReachSinkInArrivalOrder ==
    [][/\ LatestRows(buffer', calls'.rows)
       /\ RowIdsIncrease(syncAuxTable' \o buffer')
       /\ ProcessChTuplesStep =>
            /\ Shipped => /\ last'.shipped = buffer \o NewRows
                          /\ buffer' = <<>>
                          /\ last'.target = "main"
                               => mainTable' = mainTable \o last'.shipped
                          /\ last'.target = "aux"
                               => syncAuxTable' = syncAuxTable \o last'.shipped
            /\ ~Shipped => buffer' = buffer \o NewRows
       /\ (~ProcessChTuplesStep /\ last'.op \in {"FlushToMainTable", "genSync"}) =>
            /\ Shipped => (last'.shipped = buffer /\ buffer' = <<>>)
            /\ ~Shipped => buffer' = buffer
       /\ last'.op \notin {"processChTuples", "FlushToMainTable", "genSync"}
            => buffer' = buffer
       /\ PostSyncSucceeds =>
            ArrivalOrder(SubSeq(mainTable', Len(mainTable) + 1, Len(mainTable')))]_vars

\* The merge added two rows of the stream, first the one received first
C16_Witness ==
    /\ syncPc = "done"
    /\ last.op = "genSync"
    /\ last.err = "nil"
    /\ \E i, j \in 1..Len(mainTable) :
          /\ i < j
          /\ mainTable[i].lsn > syncArg
          /\ mainTable[j].lsn > syncArg
          /\ mainTable[i].id < mainTable[j].id

\* C17: on every path through genSync on which the background upload task
\* was launched, the early error returns included, bulkUploader.Finish is
\* called, so that the task reaches the end of its input, delivers its
\* result and ends: when genSync has returned, a task that was launched is
\* ending or has ended.
C17_UploadPipelineClosed ==
    (syncPc \in {"failed", "done"} /\ bulkUpload # "idle")
        => bulkUpload \in {"draining", "done"}

\* C18: the delta buffer never mixes row formats: at every flush all rows
\* of the accumulator were written under the inSync value that selects the
\* target of the flush; rows shipped to the aux table all carry the
\* (row id, lsn) fields and rows shipped elsewhere carry none.
C18_BufferNeverMixesFormats ==
    last.target # "none"
        => \A i \in 1..Len(last.shipped) :
              last.shipped[i].aux <=> (last.target = "aux")

\* C19: no event received while inSync is true is lost by the sync: every
\* row with lsn > snapshotLSN that processChTuples accepted between
\* StartSync and the end of genSync, rows that an auto-flush shipped to the
\* aux table before genSync truncated it included, is in the main table
\* when genSync has returned nil.
C19_NoLiveEventLostBySync ==
    (syncPc = "done" /\ last.op = "genSync" /\ last.err = "nil")
        => \A i \in 1..Len(history) :
              (history[i].aux /\ history[i].lsn > syncArg)
                  => \E k \in 1..Len(mainTable) : mainTable[k].id = history[i].id

\* C20: the accumulator of the loader is empty whenever bufferCmdId is 0,
\* the condition under which attemptFlushBuffer skips the flush: no staged
\* row is left in it with bufferCmdId = 0.
C20_AccumulatorEmptyWhenNoCommand == bufferCmdId = 0 => buffer = <<>>

====
